---- MODULE Spec2Model ----
(***************************************************************************)
(* eBCSgen: the transition-system container (TS/TransitionSystem.py) and   *)
(* the rate algebra (Core/Rate.py).                                        *)
(*                                                                         *)
(* A State is a record [sequence, is_inf]; an Edge is a record             *)
(* [source, target, probability, encoded].  TS/State.py and TS/Edge.py are *)
(* not part of the sources at hand: their operations are modelled from the *)
(* specification's data model (section 3) and are marked as such.          *)
(*                                                                         *)
(* Probabilities are counted in units of 1/ProbDen, so that the            *)
(* probability 1 of the code is ProbDen units.                             *)
(***************************************************************************)
EXTENDS Integers, Sequences, FiniteSets, TLC

VARIABLES states_encoding, edges, ordering, init, unprocessed, processed,
          phase, last, expression, model

vars == <<states_encoding, edges, ordering, init, unprocessed, processed,
          phase, last, expression, model>>

tsvars == <<states_encoding, edges, ordering, init, unprocessed, processed, phase>>

-----------------------------------------------------------------------------
(* Bounds of the model *)

\* the largest number of states the explorer puts into one transition system
MaxStates == 2
\* the largest total number of molecules of a state the explorer creates
MaxMolecules == 1
\* the denominator of the probabilities: an edge weighs p/ProbDen
ProbDen == 2
\* the largest number of successors the explorer gives one state
MaxOut == 2
\* the largest bound handed to change_hell
MaxBound == 1
\* the largest numeric literal of a rate expression
MaxLiteral == 3

\* the largest number of rules of a model
MaxRules == 2

\* the largest number of molecules on one side of a rule
MaxSide == 1

\* the largest number of molecules of an initial marking
MaxInit == 2

\* the largest number of compilations of one model
MaxCompiles == 2

-----------------------------------------------------------------------------
(* Generic helpers *)

Range(f) == {f[x] : x \in DOMAIN f}

Injective(f) == \A x, y \in DOMAIN f : f[x] = f[y] => x = y

\* all sequences that enumerate the set S once
Perms(S) == {p \in [1..Cardinality(S) -> S] : Range(p) = S}

RECURSIVE SumSeq(_)
SumSeq(s) == IF Len(s) = 0 THEN 0 ELSE Head(s) + SumSeq(Tail(s))

\* a Python dict: d[k] = v
DictSet(d, k, v) == [x \in DOMAIN d \cup {k} |-> IF x = k THEN v ELSE d[x]]

\* a Python dict: del d[k]
DictDel(d, k) == [x \in DOMAIN d \ {k} |-> d[x]]

EmptyDict == [x \in {} |-> 0]

-----------------------------------------------------------------------------
(* States and edges *)

\* the coordinate of the symbolic overflow state (np.inf)
Inf == -1

\* the value of self.init before encode stored a code (the type object int)
NoInit == 0

\* State(sequence): a fresh State is not flagged infinite
State(sequence) == [sequence |-> sequence, is_inf |-> FALSE]

\* the symbolic overflow state over an ordering of length n
Hell(n) == [sequence |-> [i \in 1..n |-> Inf], is_inf |-> TRUE]

\* State.reorder(indices): coordinate i of the result is coordinate indices[i]
reorder(state, indices) ==
    [sequence |-> [i \in 1..Len(indices) |-> state.sequence[indices[i]]],
     is_inf |-> state.is_inf]

\* Edge(source, target, probability)
Edge(source, target, probability) ==
    [source |-> source, target |-> target, probability |-> probability,
     encoded |-> FALSE]

\* an edge between integer codes
CodeEdge(source, target, probability) ==
    [source |-> source, target |-> target, probability |-> probability,
     encoded |-> TRUE]

\* Edge.encode(encoding): the endpoints become their codes
EdgeEncode(edge, encoding) ==
    IF edge.encoded THEN edge
    ELSE CodeEdge(encoding[edge.source], encoding[edge.target], edge.probability)

-----------------------------------------------------------------------------
(* The species ordering and the states the explorer creates *)

Ordering == <<"A", "B", "C">>

Vectors(n) == {v \in [1..n -> 0..MaxMolecules] : SumSeq(v) <= MaxMolecules}

Universe == {State(v) : v \in Vectors(Len(Ordering))} \cup {Hell(Len(Ordering))}

Known == processed \cup unprocessed \cup DOMAIN states_encoding

RECURSIVE SumWeights(_, _)
SumWeights(w, T) ==
    IF T = {} THEN 0
    ELSE LET t == CHOOSE x \in T : TRUE IN w[t] + SumWeights(w, T \ {t})

\* the weights an explorer gives the edges to the targets T: positive, summing to 1
\* (a state without successors gets no edge)
Weights(T) ==
    IF T = {} THEN {EmptyDict}
    ELSE {w \in [T -> 1..ProbDen] : SumWeights(w, T) = ProbDen}

-----------------------------------------------------------------------------
(* TransitionSystem.__init__ *)

InitTS ==
    /\ states_encoding = EmptyDict
    /\ edges = {}
    /\ ordering = Ordering
    /\ init = NoInit
    /\ unprocessed = {}
    /\ processed = {}
    /\ phase = "building"

\* no Model is at hand: no rules, an empty initial marking, no definitions
NoModel == [rules |-> {}, init |-> EmptyDict, definitions |-> EmptyDict, bound |-> 0]

Init ==
    /\ InitTS
    /\ last = [op |-> "init"]
    /\ expression = [data |-> "num", value |-> 0]
    /\ model = NoModel

-----------------------------------------------------------------------------
(* The external explorer: it fills the staging sets and the edge set *)

\* the explorer puts a state into unprocessed: the initial state when it starts,
\* a further state when it resumes after an encode
AddState(s) ==
    /\ \/ Known = {}
       \/ phase = "encoded"
    /\ s \notin Known
    /\ Cardinality(Known) < MaxStates
    /\ unprocessed' = unprocessed \cup {s}
    /\ last' = [op |-> "build"]
    /\ UNCHANGED <<states_encoding, edges, ordering, init, processed, phase, expression, model>>

\* the explorer processes the unprocessed state s: one edge to each successor
\* in T, weighted by w; s becomes processed, new successors unprocessed
Process(s, T, w) ==
    /\ phase = "building"
    /\ s \in unprocessed
    /\ Cardinality(Known \cup T) <= MaxStates
    /\ edges' = edges \cup {Edge(s, t, w[t]) : t \in T}
    /\ processed' = processed \cup {s}
    /\ unprocessed' = (unprocessed \ {s}) \cup (T \ (processed \cup {s}))
    /\ last' = [op |-> "build"]
    /\ UNCHANGED <<states_encoding, ordering, init, phase, expression, model>>

-----------------------------------------------------------------------------
(* TransitionSystem.encode *)

NextCodeZeroBased(encoding) == Cardinality(DOMAIN encoding)

\* len(self.states_encoding) + 1
NextCode(encoding) == Cardinality(DOMAIN encoding) + 1

\* the loop of encode over the states in the order the set yields them
RECURSIVE EncodeStates(_, _)
EncodeStates(encoding, order) ==
    IF Len(order) = 0 THEN encoding
    ELSE LET state == Head(order)
             enc1 == IF state \notin DOMAIN encoding
                     THEN DictSet(encoding, state, NextCode(encoding))
                     ELSE encoding
         IN EncodeStates(enc1, Tail(order))

\* encode_edges
encode_edges(es, encoding) == {EdgeEncode(e, encoding) : e \in es}

\* the staging sets when encode returns: processed is replaced by an empty
\* set, unprocessed is not assigned
EncodeStagingKept(proc, unproc) == [processed |-> proc, unprocessed |-> unproc]

EncodeStaging(proc, unproc) == [processed |-> {}, unprocessed |-> unproc]

Encode(init_state) ==
    /\ phase \in {"building", "encoded"}
    /\ \E order \in Perms(processed \cup unprocessed) :
         LET enc == EncodeStates(states_encoding, order) IN
         /\ states_encoding' = enc
         /\ IF init_state \in DOMAIN enc
            THEN /\ init' = enc[init_state]
                 /\ processed' = EncodeStaging(processed, unprocessed).processed
                 /\ unprocessed' = EncodeStaging(processed, unprocessed).unprocessed
                 /\ edges' = encode_edges(edges, enc)
                 /\ phase' = "encoded"
                 /\ last' = [op |-> "encode", raised |-> FALSE]
            ELSE \* KeyError at self.states_encoding[init]: the run is aborted
                 /\ phase' = "aborted"
                 /\ last' = [op |-> "encode", raised |-> TRUE]
                 /\ UNCHANGED <<init, processed, unprocessed, edges>>
    /\ UNCHANGED <<ordering, expression, model>>

\* create_decoding: the swapped dictionary (a later item overwrites an earlier one)
create_decoding(encoding) ==
    [c \in Range(encoding) |-> CHOOSE s \in DOMAIN encoding : encoding[s] = c]

-----------------------------------------------------------------------------
(* TransitionSystem.recode *)

\* Edge.recode raises KeyError: an endpoint is no key of encoding_old, or the
\* state it decodes to is no key of encoding_new
EdgeRecodeRaises(edge, encoding_old, encoding_new) ==
    \/ ~edge.encoded
    \/ edge.source \notin DOMAIN encoding_old
    \/ edge.target \notin DOMAIN encoding_old
    \/ encoding_old[edge.source] \notin DOMAIN encoding_new
    \/ encoding_old[edge.target] \notin DOMAIN encoding_new

\* Edge.recode(encoding_old, encoding_new): a new edge between the new codes
EdgeRecode(edge, encoding_old, encoding_new) ==
    CodeEdge(encoding_new[encoding_old[edge.source]],
             encoding_new[encoding_old[edge.target]], edge.probability)

recodeTargetKept(es, encoding, new_encoding) ==
    LET old_encoding == create_decoding(encoding) IN
    IF \E e \in es : EdgeRecodeRaises(e, old_encoding, new_encoding)
    THEN [raised |-> TRUE, edges |-> es]
    ELSE [raised |-> FALSE,
          edges |-> {CodeEdge(new_encoding[old_encoding[e.source]], e.target,
                              e.probability) : e \in es}]

\* recode(new_encoding) on the edge set es of a system encoded by encoding:
\* the new edge set, or KeyError with self.edges left as it was
recode(es, encoding, new_encoding) ==
    LET old_encoding == create_decoding(encoding) IN
    IF \E e \in es : EdgeRecodeRaises(e, old_encoding, new_encoding)
    THEN [raised |-> TRUE, edges |-> es]
    ELSE [raised |-> FALSE,
          edges |-> {EdgeRecode(e, old_encoding, new_encoding) : e \in es}]

\* the encodings handed to recode: the states of this system, all or all but
\* one, onto distinct codes
NewEncodings ==
    {f \in UNION {[D -> 1..MaxStates] : D \in SUBSET DOMAIN states_encoding} :
       /\ Injective(f)
       /\ Cardinality(DOMAIN f) + 1 >= Cardinality(DOMAIN states_encoding)}

Recode(new_encoding) ==
    /\ phase \in {"encoded", "repaired"}
    /\ LET r == recode(edges, states_encoding, new_encoding) IN
       /\ edges' = r.edges
       /\ last' = [op |-> "recode", raised |-> r.raised,
                   new_encoding |-> new_encoding, old_edges |-> edges]
    /\ phase' = "finished"
    /\ UNCHANGED <<states_encoding, ordering, init, unprocessed, processed, expression, model>>

-----------------------------------------------------------------------------
(* TransitionSystem.__eq__ and create_indices *)

create_indicesInverse(ordering_1, ordering_2) ==
    IF Range(ordering_1) = Range(ordering_2)
    THEN [success |-> TRUE,
          indices |-> [i_2 \in 1..Len(ordering_2) |->
                         CHOOSE i_1 \in 1..Len(ordering_1) :
                           ordering_1[i_1] = ordering_2[i_2]]]
    ELSE [success |-> FALSE, indices |-> <<>>]

\* create_indices(ordering_1, ordering_2): for each position of ordering_1 the
\* first position of ordering_2 that holds the same agent (positions count
\* from 1 here, from 0 in the code)
create_indices(ordering_1, ordering_2) ==
    IF Range(ordering_1) = Range(ordering_2)
    THEN [success |-> TRUE,
          indices |-> [i_1 \in 1..Len(ordering_1) |->
                         CHOOSE i_2 \in 1..Len(ordering_2) :
                           /\ ordering_1[i_1] = ordering_2[i_2]
                           /\ \A j \in 1..(i_2 - 1) : ordering_1[i_1] # ordering_2[j]]]
    ELSE [success |-> FALSE, indices |-> <<>>]

\* hash(edge): the hash of (source, target, probability)
EdgeHash(edge) == <<edge.source, edge.target, edge.probability>>

\* a transition system as a value: the fields __eq__ reads
TS(encoding, es, ord) == [states_encoding |-> encoding, edges |-> es, ordering |-> ord]

Self == TS(states_encoding, edges, ordering)

\* self == other
TransitionSystemEq(self, other) ==
    LET ci == create_indices(other.ordering, self.ordering) IN
    IF ~ci.success THEN FALSE
    ELSE LET keys == DOMAIN self.states_encoding
             re_encoding ==
                 [s \in {reorder(key, ci.indices) : key \in keys} |->
                    self.states_encoding[
                        CHOOSE key \in keys : reorder(key, ci.indices) = s]]
             r == recode(self.edges, re_encoding, other.states_encoding)
         IN IF r.raised THEN FALSE
            ELSE {EdgeHash(e) : e \in r.edges} = {EdgeHash(e) : e \in other.edges}

\* the systems self is compared with: a copy of ts under the species
\* permutation pi with the codes renamed by sigma ...
PermuteState(state, pi) ==
    [sequence |-> [i \in 1..Len(pi) |-> state.sequence[pi[i]]],
     is_inf |-> state.is_inf]

Permuted(ts, pi, sigma) ==
    LET keys == DOMAIN ts.states_encoding IN
    TS([s \in {PermuteState(k, pi) : k \in keys} |->
          sigma[ts.states_encoding[CHOOSE k \in keys : PermuteState(k, pi) = s]]],
       {CodeEdge(sigma[e.source], sigma[e.target], e.probability) : e \in ts.edges},
       [i \in 1..Len(ts.ordering) |-> ts.ordering[pi[i]]])

\* ... the same with the probability of the edge e changed to p ...
Perturbed(ts, e, p) ==
    [ts EXCEPT !.edges = (ts.edges \ {e}) \cup {[e EXCEPT !.probability = p]}]

\* ... a system over another species set ...
OtherSpecies(ts) == [ts EXCEPT !.ordering[1] = "D"]

\* ... and a system that lacks the state k of ts and the edges at it
Without(ts, k) ==
    LET c == ts.states_encoding[k] IN
    [ts EXCEPT !.states_encoding = DictDel(ts.states_encoding, k),
               !.edges = {e \in ts.edges : e.source # c /\ e.target # c}]

SpeciesPerms == Perms(1..Len(Ordering))

CodePerms(ts) ==
    {f \in [Range(ts.states_encoding) -> Range(ts.states_encoding)] : Injective(f)}

Identity(n) == [i \in 1..n |-> i]

Others ==
    IF phase \notin {"encoded", "repaired"} THEN {} ELSE
    {[tag |-> "permuted", pi |-> pi, ts |-> Permuted(Self, pi, sigma)] :
        pi \in SpeciesPerms, sigma \in CodePerms(Self)}
    \cup {[tag |-> "perturbed", pi |-> pi,
           ts |-> Perturbed(Permuted(Self, pi, Identity(Cardinality(DOMAIN states_encoding))),
                            e, p)] :
            pi \in SpeciesPerms,
            e \in {CodeEdge(x.source, x.target, x.probability) : x \in edges},
            p \in 1..ProbDen}
    \cup {[tag |-> "species", pi |-> Identity(Len(ordering)), ts |-> OtherSpecies(Self)]}
    \cup {[tag |-> "without", pi |-> Identity(Len(ordering)), ts |-> Without(Self, k)] :
            k \in DOMAIN states_encoding}

Eq(other) ==
    /\ phase \in {"encoded", "repaired"}
    /\ other.tag = "perturbed" =>
         \E e \in edges : \E x \in other.ts.edges :
            /\ x.source = e.source /\ x.target = e.target
            /\ x.probability # e.probability
    /\ last' = [op |-> "eq", tag |-> other.tag, pi |-> other.pi,
                result |-> TransitionSystemEq(Self, other.ts)]
    /\ phase' = "finished"
    /\ UNCHANGED <<states_encoding, edges, ordering, init, unprocessed, processed,
                   expression, model>>

-----------------------------------------------------------------------------
(* TransitionSystem.change_hell *)

change_hellFreshCode(encoding, bound) ==
    LET flagged == {key \in DOMAIN encoding : key.is_inf} IN
    IF flagged = {} THEN {encoding}
    ELSE {LET hell == [sequence |-> [i \in 1..Len(key.sequence) |-> bound + 1],
                       is_inf |-> TRUE]
          IN DictSet(DictDel(encoding, key), hell, Cardinality(DOMAIN encoding) + 1) :
            key \in flagged}

\* change_hell(bound): the encodings it can leave, one for each key flagged
\* infinite that the loop over the dictionary can meet first
change_hell(encoding, bound) ==
    LET flagged == {key \in DOMAIN encoding : key.is_inf} IN
    IF flagged = {} THEN {encoding}
    ELSE {LET hell == [sequence |-> [i \in 1..Len(key.sequence) |-> bound + 1],
                       is_inf |-> TRUE]
          IN DictSet(DictDel(encoding, key), hell, encoding[key]) :
            key \in flagged}

ChangeHell(bound) ==
    /\ phase \in {"encoded", "repaired"}
    /\ states_encoding' \in change_hell(states_encoding, bound)
    /\ phase' = "repaired"
    /\ last' = [op |-> "change_hell", bound |-> bound]
    /\ UNCHANGED <<edges, ordering, init, unprocessed, processed, expression, model>>

-----------------------------------------------------------------------------
(* TransitionSystem.__iter__ / __next__ and the PRISM export *)

\* Edge.__lt__: edges are ordered by (source, target)
EdgeLt(e, f) ==
    \/ e.source < f.source
    \/ e.source = f.source /\ e.target < f.target

EdgeLtByTarget(e, f) ==
    \/ e.target < f.target
    \/ e.target = f.target /\ e.source < f.source

\* sorted(edges)
RECURSIVE sorted(_)
sorted(es) ==
    IF es = {} THEN <<>>
    ELSE LET e == CHOOSE x \in es : \A y \in es : ~EdgeLt(y, x)
         IN <<e>> \o sorted(es \ {e})

\* itertools.groupby(edges, key=source): the runs of consecutive edges that
\* share a source
RECURSIVE groupby(_)
groupby(seq) ==
    IF Len(seq) = 0 THEN <<>>
    ELSE LET rest == groupby(Tail(seq)) IN
         IF Len(rest) > 0 /\ Head(rest)[1].source = Head(seq).source
         THEN <<(<<Head(seq)>> \o Head(rest))>> \o Tail(rest)
         ELSE <<(<<Head(seq)>>)>> \o rest

RECURSIVE sortedByTarget(_)
sortedByTarget(es) ==
    IF es = {} THEN <<>>
    ELSE LET e == CHOOSE x \in es : \A y \in es : ~EdgeLtByTarget(y, x)
         IN <<e>> \o sortedByTarget(es \ {e})

IterateUnsorted(es) == groupby(sortedByTarget(es))

\* list(iter(self)): the groups __next__ yields until StopIteration
Iterate(es) == groupby(sorted(es))

Iter ==
    /\ phase \in {"encoded", "repaired"}
    /\ last' = [op |-> "iter", groups |-> Iterate(edges)]
    /\ phase' = "finished"
    /\ UNCHANGED <<states_encoding, edges, ordering, init, unprocessed, processed,
                   expression, model>>

\* edges_to_PRISM(decoding): one guarded command per group; the guard is the
\* decoded source, each term a probability and the decoded target
edges_to_PRISM(es, decoding) ==
    LET groups == Iterate(es) IN
    [g \in 1..Len(groups) |->
       [source |-> groups[g][1].source,
        guard |-> decoding[groups[g][1].source],
        terms |-> [k \in 1..Len(groups[g]) |->
                     [probability |-> groups[g][k].probability,
                      target |-> decoding[groups[g][k].target]]]]]

\* save_to_prism: the variable declarations and the guarded commands written
save_to_prism(encoding, es, ord, init_code, bound) ==
    LET decoding == create_decoding(encoding) IN
    [vars |-> [i \in 1..Len(ord) |->
                 [name |-> i, upper |-> bound + 1,
                  init |-> decoding[init_code].sequence[i], agent |-> ord[i]]],
     transitions |-> edges_to_PRISM(es, decoding)]

SaveToPrism(bound) ==
    /\ phase \in {"encoded", "repaired"}
    /\ last' = [op |-> "prism",
                file |-> save_to_prism(states_encoding, edges, ordering, init, bound)]
    /\ phase' = "finished"
    /\ UNCHANGED <<states_encoding, edges, ordering, init, unprocessed, processed,
                   expression, model>>

-----------------------------------------------------------------------------
(* TransitionSystem.save_to_STORM_explicit *)

\* the nested has_outgoing_edges(state)
has_outgoing_edges(es, state) == \E edge \in es : edge.source = state

\* the first loop: Edge(value, value, 1) is added to self.edges for every code
\* without an outgoing edge
add_self_loops(es, encoding) ==
    es \cup {CodeEdge(value, value, ProbDen) :
               value \in {v \in Range(encoding) : ~has_outgoing_edges(es, v)}}

\* TransitionSystem defines no method order_edges_source: the call
\* self.order_edges_source() raises AttributeError
HasOrderEdgesSource == FALSE

\* what order_edges_source is to yield: the edges ordered by source
order_edges_source(es) == sorted(es)

\* State.is_hell(): the state is flagged as overflow
is_hell(state) == state.is_inf

\* the label file as the code writes it: the declaration, the line "0 init",
\* then str(state.sequence) + "deadlock" for every hell state
write_labels(encoding) ==
    [written |-> TRUE, init |-> <<0>>,
     deadlock |-> {state.sequence : state \in {k \in DOMAIN encoding : is_hell(k)}}]

\* the two files save_to_STORM_explicit leaves, and whether it raised
save_to_STORM_explicit(es, encoding) ==
    IF HasOrderEdgesSource
    THEN [raised |-> FALSE,
          trans_file |-> [header |-> "dtmc", lines |-> order_edges_source(es)],
          label_file |-> write_labels(encoding)]
    ELSE [raised |-> TRUE,
          trans_file |-> [header |-> "dtmc", lines |-> <<>>],
          label_file |-> [written |-> FALSE, init |-> <<>>, deadlock |-> {}]]

SaveToStorm ==
    /\ phase \in {"encoded", "repaired"}
    /\ edges' = add_self_loops(edges, states_encoding)
    /\ LET out == save_to_STORM_explicit(edges', states_encoding) IN
       last' = [op |-> "storm", raised |-> out.raised, trans_file |-> out.trans_file,
                label_file |-> out.label_file]
    /\ UNCHANGED <<states_encoding, ordering, init, unprocessed, processed, phase,
                   expression, model>>

-----------------------------------------------------------------------------
Next ==
    \/ \E s \in Universe : AddState(s)
    \/ \E s \in unprocessed : \E T \in SUBSET Universe : \E w \in Weights(T) :
         Cardinality(T) <= MaxOut /\ Process(s, T, w)
    \/ \E s \in Universe : Encode(s)
    \/ \E new_encoding \in NewEncodings : Recode(new_encoding)
    \/ \E other \in Others : Eq(other)
    \/ \E bound \in 0..MaxBound : ChangeHell(bound)
    \/ Iter
    \/ SaveToStorm
    \/ \E bound \in 0..MaxBound : SaveToPrism(bound)

Spec == Init /\ [][Next]_vars

-----------------------------------------------------------------------------
(* Core/Rate.py: rate expressions                                          *)
(*                                                                         *)
(* An expression is a lark Tree [data, children]; a leaf is a Token        *)
(* [data |-> "token", value], a number [data |-> "num", value], a Complex  *)
(* [data |-> "complex", value] or a State [data |-> "state", value].       *)

Tree(data, children) == [data |-> data, children |-> children]
Token(value) == [data |-> "token", value |-> value]
Num(value) == [data |-> "num", value |-> value]
IsTree(t) == "children" \in DOMAIN t

\* a Complex: an agent name and the state of its one feature, "_" when the
\* pattern leaves it open
Complex(name, st) == [name |-> name, st |-> st]

\* Complex.compatible(other): the pattern matches the other complex
compatible(complex, other) ==
    /\ complex.name = other.name
    /\ complex.st = "_" \/ complex.st = other.st

\* the complexes of the orderings and the patterns of the rates
Ground == {Complex("K", "u"), Complex("K", "p"), Complex("B", "_")}
Patterns == Ground \cup {Complex("K", "_"), Complex("X", "_")}

\* the orderings handed to vectorize: the ground complexes, or all but one of
\* them, in any order
RateOrderings == UNION {Perms(G) : G \in {H \in SUBSET Ground : Cardinality(H) >= 2}}

\* the definitions handed to vectorize
Definitions == {EmptyDict, [n \in {"k1"} |-> MaxLiteral + 2]}

\* the expressions: a leaf, or two leaves joined by * or +
Leaves ==
    {Tree("fun", <<Num(k)>>) : k \in 2..MaxLiteral}
    \cup {Tree("fun", <<Tree("param", <<Token("k1")>>)>>)}
    \cup {Tree("fun", <<Tree("rate_agent",
                             <<Token("["),
                               Tree("agent", <<[data |-> "complex", value |-> c]>>),
                               Token("]")>>)>>) : c \in Patterns}

Expressions ==
    {Tree("rate", <<l>>) : l \in Leaves}
    \cup {Tree("rate", <<Tree("fun", <<l, Token(op), r>>)>>) :
            l \in Leaves, op \in {"*", "+"}, r \in Leaves}

\* the states handed to evaluate: over an ordering of length n
EvalStates(n) == [1..n -> {3, 5, 7}] \cup {[i \in 1..n |-> 0]}

\* Vectorizer.agent: the 0/1 vector of the complexes of the ordering the
\* pattern is compatible with
VectorizerAgentShifted(children, ord) ==
    Tree("agent",
         <<[data |-> "state",
            value |-> State([i \in 1..Len(ord) |->
                               IF compatible(children[1].value,
                                             ord[(i % Len(ord)) + 1])
                               THEN 1 ELSE 0])]>>)

VectorizerAgent(children, ord) ==
    Tree("agent",
         <<[data |-> "state",
            value |-> State([i \in 1..Len(ord) |->
                               IF compatible(children[1].value, ord[i])
                               THEN 1 ELSE 0])]>>)

\* Vectorizer.param: the defined value, or the param tree as it was
VectorizerParam(children, definitions) ==
    IF children[1].value \in DOMAIN definitions
    THEN Num(definitions[children[1].value])
    ELSE Tree("param", children)

\* Vectorizer(ordering, definitions).transform(tree): lark transforms the
\* children first, then calls the callback named by the node
RECURSIVE VectorizerTransform(_, _, _)
VectorizerTransform(t, ord, definitions) ==
    IF ~IsTree(t) THEN t
    ELSE LET ch == [i \in 1..Len(t.children) |->
                      VectorizerTransform(t.children[i], ord, definitions)]
         IN CASE t.data = "agent" -> VectorizerAgent(ch, ord)
              [] t.data = "rate_agent" -> ch[2]
              [] t.data = "param" -> VectorizerParam(ch, definitions)
              [] OTHER -> Tree(t.data, ch)

\* Vectorizer.visited: the States the agent callback appended, in call order
RECURSIVE VectorizerVisited(_, _)
VectorizerVisited(t, ord) ==
    IF ~IsTree(t) THEN <<>>
    ELSE LET sub[i \in 0..Len(t.children)] ==
                 IF i = 0 THEN <<>>
                 ELSE sub[i - 1] \o VectorizerVisited(t.children[i], ord)
         IN IF t.data = "agent"
            THEN sub[Len(t.children)]
                   \o <<VectorizerAgent(t.children, ord).children[1].value>>
            ELSE sub[Len(t.children)]

\* State.__mul__ and the sum over the product: the dot product
Dot(a, b) == SumSeq([i \in 1..Len(a) |-> a[i] * b[i]])

EvaluaterAgentSumAll(children, state) == Num(SumSeq(state))

\* Evaluater.agent: sum(self.state * state[0])
EvaluaterAgent(children, state) == Num(Dot(state, children[1].value.sequence))

\* Evaluater(state).transform(tree)
RECURSIVE EvaluaterTransform(_, _)
EvaluaterTransform(t, state) ==
    IF ~IsTree(t) THEN t
    ELSE LET ch == [i \in 1..Len(t.children) |-> EvaluaterTransform(t.children[i], state)]
         IN CASE t.data = "agent" -> EvaluaterAgent(ch, state)
              [] t.data = "param" -> ch[1]
              [] OTHER -> Tree(t.data, ch)

\* tree_to_string: the leaves from left to right
RECURSIVE tree_to_string(_)
tree_to_string(tree) ==
    IF IsTree(tree)
    THEN LET sub[i \in 0..Len(tree.children)] ==
                 IF i = 0 THEN <<>>
                 ELSE sub[i - 1] \o tree_to_string(tree.children[i])
         IN sub[Len(tree.children)]
    ELSE <<tree>>

\* sympy.sympify on the joined leaves: numbers joined by * and + fold to a
\* number, * binding tighter; with a free symbol the expression stays symbolic
RECURSIVE FoldTokens(_, _, _, _)
FoldTokens(tokens, i, sum, prod) ==
    IF i > Len(tokens) THEN sum + prod
    ELSE IF tokens[i].value = "*"
         THEN FoldTokens(tokens, i + 2, sum, prod * tokens[i + 1].value)
         ELSE FoldTokens(tokens, i + 2, sum + prod, tokens[i + 1].value)

sympify(tokens) ==
    IF \E i \in 1..Len(tokens) : i % 2 = 1 /\ tokens[i].data # "num"
    THEN [symbolic |-> TRUE, tokens |-> tokens]
    ELSE [symbolic |-> FALSE, value |-> FoldTokens(tokens, 2, 0, tokens[1].value)]

InitRate ==
    /\ InitTS
    /\ last = [op |-> "init"]
    /\ expression \in Expressions
    /\ model = NoModel

\* Rate.vectorize(ordering, definitions)
Vectorize(ord, definitions) ==
    /\ last.op = "init"
    /\ expression' = VectorizerTransform(expression, ord, definitions)
    /\ last' = [op |-> "vectorize", ordering |-> ord, old |-> expression,
                visited |-> VectorizerVisited(expression, ord)]
    /\ UNCHANGED <<tsvars, model>>

\* Rate.evaluate(state)
Evaluate(state) ==
    /\ last.op = "vectorize"
    /\ LET result == EvaluaterTransform(expression, state) IN
       last' = [op |-> "evaluate", state |-> state, result |-> result,
                value |-> sympify(tree_to_string(result))]
    /\ UNCHANGED <<tsvars, expression, model>>

NextRate ==
    \/ \E ord \in RateOrderings : \E definitions \in Definitions :
         Vectorize(ord, definitions)
    \/ /\ last.op = "vectorize"
       /\ \E state \in EvalStates(Len(last.ordering)) : Evaluate(state)

SpecRate == InitRate /\ [][NextRate]_vars

-----------------------------------------------------------------------------
(* Core/Model.py: Model.to_vector_model                                    *)
(*                                                                         *)
(* A side and an initial marking are Counters: a function from complexes   *)
(* to positive counts. A rule is [lhs, rhs, rate]; the reactions it        *)
(* creates are [lhs, rhs, rate] over ground complexes.                     *)

\* Complex.__lt__: the total order of the complexes
ComplexOrder ==
    <<Complex("B", "_"), Complex("K", "_"), Complex("K", "p"), Complex("K", "u"),
      Complex("X", "_")>>

ComplexRank(c) == CHOOSE i \in 1..Len(ComplexOrder) : ComplexOrder[i] = c

ComplexLt(c, d) == ComplexRank(c) < ComplexRank(d)

\* the number of molecules of a Counter
RECURSIVE Total(_)
Total(side) ==
    IF DOMAIN side = {} THEN 0
    ELSE LET c == CHOOSE x \in DOMAIN side : TRUE
         IN side[c] + Total(DictDel(side, c))

\* the Counters over the complexes C with at most n molecules
Sides(C, n) == {s \in UNION {[D -> 1..n] : D \in SUBSET C} : Total(s) <= n}

\* the complex a rule leaves abstract
Abstract == Complex("K", "_")

\* the rates of the rules: [K()] and k1 * [B]
AgentLeaf(c) ==
    Tree("fun", <<Tree("rate_agent",
                       <<Token("["),
                         Tree("agent", <<[data |-> "complex", value |-> c]>>),
                         Token("]")>>)>>)

RuleRates ==
    {Tree("rate", <<AgentLeaf(Abstract)>>),
     Tree("rate", <<Tree("fun", <<Tree("fun", <<Tree("param", <<Token("k1")>>)>>),
                                  Token("*"),
                                  AgentLeaf(Complex("B", "_"))>>)>>)}

\* the rules: a non-empty left-hand side, a right-hand side and a rate
Rules ==
    {[lhs |-> l, rhs |-> r, rate |-> k] :
        l \in Sides(Ground \cup {Abstract}, MaxSide) \ {EmptyDict},
        r \in Sides(Ground \cup {Abstract}, MaxSide),
        k \in RuleRates}

\* the sets of at most n rules
RECURSIVE RuleSets(_)
RuleSets(n) ==
    IF n = 0 THEN {{}}
    ELSE LET less == RuleSets(n - 1)
         IN less \cup {S \cup {rule} : S \in less, rule \in Rules}

\* the models: rules, an initial marking of ground complexes, definitions
Models ==
    {[rules |-> R, init |-> i, definitions |-> d, bound |-> MaxBound] :
        R \in RuleSets(MaxRules), i \in Sides(Ground, MaxInit), d \in Definitions}

\* a side with the abstract complex replaced by the ground complex g
Instantiate(side, g) ==
    LET kept == DOMAIN side \ {Abstract}
        keys == kept \cup (IF Abstract \in DOMAIN side THEN {g} ELSE {})
    IN [c \in keys |->
          (IF c \in kept THEN side[c] ELSE 0)
          + (IF c = g /\ Abstract \in DOMAIN side THEN side[Abstract] ELSE 0)]

\* rule.create_reactions(atomic_signature, structure_signature): one reaction
\* per ground complex the abstract complex of the rule is compatible with
create_reactions(rule) ==
    IF Abstract \in DOMAIN rule.lhs \cup DOMAIN rule.rhs
    THEN {[lhs |-> Instantiate(rule.lhs, g), rhs |-> Instantiate(rule.rhs, g),
           rate |-> rule.rate] : g \in {h \in Ground : compatible(Abstract, h)}}
    ELSE {[lhs |-> rule.lhs, rhs |-> rule.rhs, rate |-> rule.rate]}

\* Side.to_vector(ordering): the count of each complex of the ordering
SideToVector(side, ord) ==
    State([i \in 1..Len(ord) |-> IF ord[i] \in DOMAIN side THEN side[ord[i]] ELSE 0])

\* Reaction.to_vector(ordering, definitions): both sides and the rate
ReactionToVector(reaction, ord, definitions) ==
    [lhs |-> SideToVector(reaction.lhs, ord),
     rhs |-> SideToVector(reaction.rhs, ord),
     rate |-> VectorizerTransform(reaction.rate, ord, definitions)]

\* the reactions of all rules
GeneratedReactions(m) == UNION {create_reactions(rule) : rule \in m.rules}

\* unique_complexes: the complexes of both sides of every reaction and of
\* the initial marking
UniqueComplexes(m) ==
    UNION {DOMAIN reaction.lhs \cup DOMAIN reaction.rhs :
             reaction \in GeneratedReactions(m)}
    \cup DOMAIN m.init

\* sorted(unique_complexes), the set iterated in the given order
InsertComplex(seq, c) ==
    LET k == Cardinality({i \in 1..Len(seq) : ~ComplexLt(c, seq[i])})
    IN SubSeq(seq, 1, k) \o <<c>> \o SubSeq(seq, k + 1, Len(seq))

RECURSIVE SortedComplexes(_)
SortedComplexes(order) ==
    IF Len(order) = 0 THEN <<>>
    ELSE InsertComplex(SortedComplexes(SubSeq(order, 1, Len(order) - 1)),
                       order[Len(order)])

\* VectorModel(vector_reactions, init, ordering, bound)
VectorModel(vector_reactions, init_vector, ord, bound) ==
    [vector_reactions |-> vector_reactions, init |-> init_vector,
     ordering |-> ord, bound |-> bound]

to_vector_modelUnsorted(m, order) ==
    VectorModel({ReactionToVector(reaction, order, m.definitions) :
                   reaction \in GeneratedReactions(m)},
                SideToVector(m.init, order), order, m.bound)

\* Model.to_vector_model(), the set unique_complexes iterated in the given order
to_vector_model(m, order) ==
    LET ord == SortedComplexes(order)
    IN VectorModel({ReactionToVector(reaction, ord, m.definitions) :
                      reaction \in GeneratedReactions(m)},
                   SideToVector(m.init, ord), ord, m.bound)

InitModel ==
    /\ InitTS
    /\ last = [op |-> "init"]
    /\ expression = [data |-> "num", value |-> 0]
    /\ model \in Models

\* one call of to_vector_model; the model is compiled at most MaxCompiles times
ToVectorModel ==
    /\ last.op = "init" \/ (last.op = "to_vector_model" /\ last.count < MaxCompiles)
    /\ \E order \in Perms(UniqueComplexes(model)) :
         last' = [op |-> "to_vector_model",
                  vm |-> to_vector_model(model, order),
                  count |-> IF last.op = "init" THEN 1 ELSE last.count + 1,
                  previous |-> IF last.op = "init" THEN <<>> ELSE last.vm.ordering]
    /\ UNCHANGED <<tsvars, expression, model>>

NextModel == ToVectorModel

SpecModel == InitModel /\ [][NextModel]_vars

-----------------------------------------------------------------------------
(* Properties *)

Encoded == phase \in {"encoded", "repaired"}

\* the state this system's encoding gives the code c
Decode(c) == CHOOSE s \in DOMAIN states_encoding : states_encoding[s] = c

\* C1: whatever building steps and encode calls were made, states_encoding is
\* injective, its codes are exactly 1..n, create_decoding inverts it, an encode
\* call codes every state of processed and unprocessed, and a building step or
\* an encode call leaves every coded state its code.
C1_EncodingBijective ==
    [][ /\ Injective(states_encoding')
        /\ Range(states_encoding') = 1..Cardinality(DOMAIN states_encoding')
        /\ \A s \in DOMAIN states_encoding' :
             create_decoding(states_encoding')[states_encoding'[s]] = s
        /\ last'.op = "encode" =>
             \A s \in processed \cup unprocessed : s \in DOMAIN states_encoding'
        /\ last'.op \in {"build", "encode"} =>
             \A s \in DOMAIN states_encoding :
                /\ s \in DOMAIN states_encoding'
                /\ states_encoding'[s] = states_encoding[s] ]_vars

\* C1 witness: an encode has coded two states, the second of them added after
\* an earlier encode no edge refers to it
C1_Witness ==
    /\ last.op = "encode" /\ ~last.raised
    /\ Cardinality(DOMAIN states_encoding) = 2
    /\ edges # {}
    /\ \E s \in unprocessed :
         /\ states_encoding[s] = 2
         /\ \A e \in edges : e.source # 2 /\ e.target # 2

\* C2: an encoded system compares equal to every copy of itself with the
\* species ordering and the states' coordinates permuted and the codes renamed,
\* and not equal to such a copy with the probability of one edge changed.
C2_EqualUpToPermutation ==
    last.op = "eq" =>
      /\ last.tag = "permuted" => last.result
      /\ last.tag = "perturbed" => ~last.result

\* C2 witness: a system of two states and two edges was compared with its
\* copy under a cyclic permutation of the three species, and found equal
C2_Witness ==
    /\ last.op = "eq" /\ last.tag = "permuted" /\ last.result
    /\ last.pi = <<2, 3, 1>>
    /\ Cardinality(DOMAIN states_encoding) = 2
    /\ Cardinality(edges) >= 2

\* C3: the comparison is False whenever the species sets differ or a state of
\* this system has no counterpart in the other system's encoding.
C3_AbsentStateNotEqual ==
    (last.op = "eq" /\ last.tag \in {"species", "without"}) => ~last.result

\* C4: recode(new_encoding) raises exactly when the state of some edge endpoint
\* is no key of new_encoding, and otherwise every edge (c1, c2, p) has become
\* (new_encoding[decode(c1)], new_encoding[decode(c2)], p).
C4_RecodeExact ==
    last.op = "recode" =>
      LET new_encoding == last.new_encoding
          missing == \E e \in last.old_edges :
                        \/ Decode(e.source) \notin DOMAIN new_encoding
                        \/ Decode(e.target) \notin DOMAIN new_encoding
      IN /\ last.raised <=> missing
         /\ ~missing =>
              edges = {CodeEdge(new_encoding[Decode(e.source)],
                                new_encoding[Decode(e.target)], e.probability) :
                         e \in last.old_edges}

\* C4 witness: a recode onto other codes succeeded and rewrote the edges
C4_Witness ==
    /\ last.op = "recode" /\ ~last.raised
    /\ Cardinality(edges) >= 2
    /\ edges # last.old_edges

\* C5: change_hell(bound) puts the vector of bound+1 under the code of the
\* state flagged infinite, which is no key any more; every other state keeps
\* its code; the number of coded states and the set of codes do not change.
C5_ChangeHellKeepsCodes ==
    [][ last'.op = "change_hell" =>
          LET hell == [sequence |-> [i \in 1..Len(ordering) |-> last'.bound + 1],
                       is_inf |-> TRUE]
          IN /\ \A key \in DOMAIN states_encoding :
                  IF key.is_inf
                  THEN /\ hell \in DOMAIN states_encoding'
                       /\ states_encoding'[hell] = states_encoding[key]
                       /\ key # hell => key \notin DOMAIN states_encoding'
                  ELSE /\ key \in DOMAIN states_encoding'
                       /\ states_encoding'[key] = states_encoding[key]
             /\ Cardinality(DOMAIN states_encoding') = Cardinality(DOMAIN states_encoding)
             /\ Range(states_encoding') = Range(states_encoding) ]_vars

\* C5 witness: change_hell(1) has put (2, 2, 2) in the place of the overflow
\* state of a system of two states
C5_Witness ==
    /\ last.op = "change_hell" /\ last.bound = 1
    /\ Cardinality(DOMAIN states_encoding) = 2
    /\ \E key \in DOMAIN states_encoding : key.is_inf /\ key.sequence = <<2, 2, 2>>

\* C6: after save_to_STORM_explicit every coded state is the source of a line
\* of the transitions file, a state without outgoing edge of the self-loop
\* (code, code, 1).
C6_EveryStateHasALine ==
    last.op = "storm" =>
      \A c \in Range(states_encoding) :
         \E i \in 1..Len(last.trans_file.lines) : last.trans_file.lines[i].source = c

\* C7: the labels file names the recorded init code as init and has one
\* deadlock line per hell state, naming its code.
C7_LabelsNameCodes ==
    last.op = "storm" =>
      /\ last.label_file.written
      /\ last.label_file.init = <<init>>
      /\ last.label_file.deadlock =
           {states_encoding[s] : s \in {k \in DOMAIN states_encoding : is_hell(k)}}

\* C8: iteration yields one group per distinct edge source, in ascending
\* source order, each group holding all and only the edges of its source; the
\* PRISM export has one guarded command per distinct source, with one term per
\* outgoing edge of that source.
C8_GroupsPartitionEdges ==
    LET sources == {e.source : e \in edges}
        out(c) == {e \in edges : e.source = c}
    IN /\ last.op = "iter" =>
            LET G == last.groups IN
            /\ Len(G) = Cardinality(sources)
            /\ \A g \in 1..Len(G) :
                 /\ Len(G[g]) = Cardinality(out(G[g][1].source))
                 /\ Range(G[g]) = out(G[g][1].source)
            /\ \A g, h \in 1..Len(G) : g < h => G[g][1].source < G[h][1].source
       /\ last.op = "prism" =>
            LET T == last.file.transitions IN
            /\ Len(T) = Cardinality(sources)
            /\ \A g, h \in 1..Len(T) : g # h => T[g].source # T[h].source
            /\ \A g \in 1..Len(T) : Len(T[g].terms) = Cardinality(out(T[g].source))

\* C8 witness: the PRISM export wrote two guarded commands with two terms each
C8_Witness ==
    /\ last.op = "prism"
    /\ Len(last.file.transitions) = 2
    /\ \A g \in 1..2 : Len(last.file.transitions[g].terms) = 2

\* the leaves under the agent nodes of a tree, from left to right
RECURSIVE AgentLeaves(_)
AgentLeaves(t) ==
    IF ~IsTree(t) THEN <<>>
    ELSE IF t.data = "agent" THEN <<t.children[1]>>
    ELSE LET sub[i \in 0..Len(t.children)] ==
                 IF i = 0 THEN <<>> ELSE sub[i - 1] \o AgentLeaves(t.children[i])
         IN sub[Len(t.children)]

\* C9: vectorize puts in the place of every agent leaf with pattern p a State
\* of length len(ordering) whose coordinate i is 1 if p is compatible with
\* ordering[i] and 0 if not (all 0 when p is compatible with no complex), and
\* returns these States, one per agent leaf.
C9_VectorizeCompatibility ==
    last.op = "vectorize" =>
      LET pats == AgentLeaves(last.old)
          vecs == AgentLeaves(expression)
          ord == last.ordering
      IN /\ Len(vecs) = Len(pats)
         /\ \A j \in 1..Len(vecs) :
              /\ vecs[j].data = "state"
              /\ ~vecs[j].value.is_inf
              /\ Len(vecs[j].value.sequence) = Len(ord)
              /\ \A i \in 1..Len(ord) :
                   vecs[j].value.sequence[i] =
                     IF compatible(pats[j].value, ord[i]) THEN 1 ELSE 0
         /\ last.visited = [j \in 1..Len(vecs) |-> vecs[j].value]

\* C9 witness: a rate with the agents K() and X() was vectorized over three
\* complexes: K() matches two of them, X() none
C9_Witness ==
    /\ last.op = "vectorize"
    /\ Len(last.ordering) = 3
    /\ Len(last.visited) = 2
    /\ SumSeq(last.visited[1].sequence) = 2
    /\ last.visited[2].sequence = <<0, 0, 0>>

\* C10: evaluate(state) puts in the place of every agent leaf with vector v the
\* sum of state[i] over the coordinates i with v[i] = 1 and leaves the other
\* leaves; k * [A] then evaluates to k times that sum and k + [A] to k plus it.
C10_EvaluateDotProduct ==
    last.op = "evaluate" =>
      LET before == tree_to_string(expression)
          after == tree_to_string(last.result)
          Matching(v) ==
              SumSeq([i \in 1..Len(v) |-> IF v[i] = 1 THEN last.state[i] ELSE 0])
      IN /\ Len(after) = Len(before)
         /\ \A j \in 1..Len(before) :
              IF before[j].data = "state"
              THEN after[j] = Num(Matching(before[j].value.sequence))
              ELSE after[j] = before[j]
         /\ (/\ Len(before) = 3
             /\ before[1].data = "num"
             /\ before[3].data = "state") =>
              /\ ~last.value.symbolic
              /\ last.value.value =
                   IF before[2].value = "*"
                   THEN before[1].value * Matching(before[3].value.sequence)
                   ELSE before[1].value + Matching(before[3].value.sequence)

\* C10 witness: 3 * [A] with A matching the first and the third of three
\* complexes, evaluated in the state (3, 5, 7), is 3 * (3 + 7)
C10_Witness ==
    /\ last.op = "evaluate"
    /\ last.state = <<3, 5, 7>>
    /\ tree_to_string(expression) = <<Num(3), Token("*"), [data |-> "state", value |-> State(<<1, 0, 1>>)]>>
    /\ last.value = [symbolic |-> FALSE, value |-> 30]

\* C12: when encode(init) has returned, processed and unprocessed are both
\* empty, whatever they held before the call.
C12_StagingSetsCleared ==
    (last.op = "encode" /\ ~last.raised) => (processed = {} /\ unprocessed = {})

\* C12, amended: an encode(init) that returns leaves processed empty and
\* unprocessed as it was before the call.
C12_EncodeClearsProcessed ==
    [][ (last'.op = "encode" /\ ~last'.raised) =>
          /\ processed' = {}
          /\ unprocessed' = unprocessed ]_vars

\* C12 witness: an encode has returned in a system with an edge, so that a
\* state was processed before the call, and with a state still unprocessed
C12_Witness ==
    /\ last.op = "encode" /\ ~last.raised
    /\ edges # {}
    /\ processed = {}
    /\ unprocessed # {}

\* C13: save_to_STORM_explicit and save_to_prism leave states_encoding, the
\* edge set and init as they were, so that the result of a comparison with any
\* other system and the output of save_to_prism are the same after the export
\* as before it.
C13_ExportReadOnly ==
    [][ last'.op \in {"storm", "prism"} =>
          /\ states_encoding' = states_encoding
          /\ edges' = edges
          /\ init' = init
          /\ \A other \in Others :
               TransitionSystemEq(TS(states_encoding', edges', ordering'), other.ts)
                 = TransitionSystemEq(Self, other.ts)
          /\ \A bound \in 0..MaxBound :
               save_to_prism(states_encoding', edges', ordering', init', bound)
                 = save_to_prism(states_encoding, edges, ordering, init, bound) ]_vars

\* the count of the complex c in a Counter
Count(side, c) == IF c \in DOMAIN side THEN side[c] ELSE 0

\* C11: the ordering of the vector model is duplicate-free and ascending and
\* holds exactly the complexes of the sides of the generated reactions and of
\* the initial marking; the initial vector, both sides of every vectorized
\* reaction and every compatibility vector of its rate have the length of the
\* ordering and are indexed by it; a second compilation of the model yields
\* an equal ordering.
C11_OneOrdering ==
    last.op = "to_vector_model" =>
      LET vm == last.vm
          ord == vm.ordering
          n == Len(ord)
          reactions == GeneratedReactions(model)
          Built(vec, side) ==
              /\ Len(vec.sequence) = n
              /\ \A i \in 1..n : vec.sequence[i] = Count(side, ord[i])
          Bound(vrate, rate) ==
              LET pats == AgentLeaves(rate)
                  vecs == AgentLeaves(vrate)
              IN /\ Len(vecs) = Len(pats)
                 /\ \A j \in 1..Len(vecs) :
                      /\ vecs[j].data = "state"
                      /\ Len(vecs[j].value.sequence) = n
                      /\ \A i \in 1..n :
                           vecs[j].value.sequence[i] =
                             IF compatible(pats[j].value, ord[i]) THEN 1 ELSE 0
          Vectorized(vr, reaction) ==
              /\ Built(vr.lhs, reaction.lhs)
              /\ Built(vr.rhs, reaction.rhs)
              /\ Bound(vr.rate, reaction.rate)
      IN /\ \A i, j \in 1..n : i < j => ComplexLt(ord[i], ord[j])
         /\ Range(ord) = {c \in Range(ComplexOrder) :
                            \/ Count(model.init, c) > 0
                            \/ \E reaction \in reactions :
                                 Count(reaction.lhs, c) + Count(reaction.rhs, c) > 0}
         /\ Built(vm.init, model.init)
         /\ \A vr \in vm.vector_reactions :
              \E reaction \in reactions : Vectorized(vr, reaction)
         /\ \A reaction \in reactions :
              \E vr \in vm.vector_reactions : Vectorized(vr, reaction)
         /\ last.count > 1 => last.previous = ord

\* C11 witness: a model of two rules, one of them abstract, was compiled a
\* second time; its ordering has three complexes, one of them only in the
\* initial marking, which holds two molecules of it
C11_Witness ==
    /\ last.op = "to_vector_model"
    /\ last.count = 2
    /\ Cardinality(model.rules) = 2
    /\ Cardinality(GeneratedReactions(model)) = 3
    /\ Len(last.vm.ordering) = 3
    /\ \E i \in 1..3 :
         /\ last.vm.init.sequence[i] = 2
         /\ \A vr \in last.vm.vector_reactions :
              vr.lhs.sequence[i] = 0 /\ vr.rhs.sequence[i] = 0

====
